---- MODULE Spec2Model ----
(***************************************************************************)
(* Refund.py: the refund panel.  One run of the script over an uploaded   *)
(* allotment file and an optional manually-verified file.                 *)
(*                                                                         *)
(* Cells are sequences of one-character strings; NA is the missing cell   *)
(* (pandas NaN).  Amounts are Python floats: binary floating point with   *)
(* MantBits significant bits, round-to-nearest-even, kept exactly as      *)
(* [neg, m, e] = (-1)^neg * m * 2^e with m a bit sequence (most           *)
(* significant bit first, odd or empty).                                   *)
(***************************************************************************)
EXTENDS Integers, Sequences, FiniteSets, TLC

\* ------------------------------------------------------------ bit strings
\* significant bits of a Python float (IEEE 754 binary64)
MantBits == 53

Zeros(n) == [i \in 1..n |-> 0]

MinOf(S) == CHOOSE i \in S : \A j \in S : i <= j
MaxOf(S) == CHOOSE i \in S : \A j \in S : i >= j

IsZero(b) == \A i \in 1..Len(b) : b[i] = 0

\* b without its leading zeros
StripLead(b) ==
    IF IsZero(b) THEN <<>>
    ELSE SubSeq(b, CHOOSE i \in 1..Len(b) : b[i] = 1 /\ \A j \in 1..(i - 1) : b[j] = 0,
                Len(b))

\* the number of trailing zeros of b (b not zero)
TrailZeros(b) ==
    CHOOSE k \in 0..(Len(b) - 1) :
        b[Len(b) - k] = 1 /\ \A j \in 0..(k - 1) : b[Len(b) - j] = 0

RECURSIVE NatBits(_)
NatBits(k) == IF k = 0 THEN <<>> ELSE Append(NatBits(k \div 2), k % 2)

PadLeft(b, n) == Zeros(n - Len(b)) \o b

\* -1, 0, 1 as a < b, a = b, a > b (a, b without leading zeros)
BCmp(a, b) ==
    IF Len(a) < Len(b) THEN -1
    ELSE IF Len(a) > Len(b) THEN 1
    ELSE IF a = b THEN 0
    ELSE LET i == CHOOSE k \in 1..Len(a) :
                      a[k] # b[k] /\ \A j \in 1..(k - 1) : a[j] = b[j]
         IN  IF a[i] < b[i] THEN -1 ELSE 1

RECURSIVE AddRange(_, _, _, _, _)
\* bits lo..hi of a + b + carry and the carry out (a, b of one length)
AddRange(a, b, lo, hi, carry) ==
    IF lo = hi
    THEN LET t == a[lo] + b[lo] + carry
         IN  [s |-> <<t % 2>>, c |-> t \div 2]
    ELSE LET mid == (lo + hi) \div 2
             R   == AddRange(a, b, mid + 1, hi, carry)
             L   == IF R.c = 1 THEN AddRange(a, b, lo, mid, 1)
                    ELSE AddRange(a, b, lo, mid, 0)
         IN  [s |-> L.s \o R.s, c |-> L.c]

BAdd(a, b) ==
    LET n == IF Len(a) > Len(b) THEN Len(a) ELSE Len(b)
        r == AddRange(PadLeft(a, n), PadLeft(b, n), 1, n, 0)
    IN  IF n = 0 THEN <<>> ELSE StripLead(<<r.c>> \o r.s)

RECURSIVE SubRange(_, _, _, _, _)
\* bits lo..hi of a - b - borrow and the borrow out (a, b of one length)
SubRange(a, b, lo, hi, borrow) ==
    IF lo = hi
    THEN LET d == a[lo] - b[lo] - borrow
         IN  IF d < 0 THEN [s |-> <<d + 2>>, c |-> 1] ELSE [s |-> <<d>>, c |-> 0]
    ELSE LET mid == (lo + hi) \div 2
             R   == SubRange(a, b, mid + 1, hi, borrow)
             L   == IF R.c = 1 THEN SubRange(a, b, lo, mid, 1)
                    ELSE SubRange(a, b, lo, mid, 0)
         IN  [s |-> L.s \o R.s, c |-> L.c]

\* a - b for a >= b
BSub(a, b) ==
    IF a = <<>> THEN <<>>
    ELSE StripLead(SubRange(a, PadLeft(b, Len(a)), 1, Len(a), 0).s)

RECURSIVE DivRange(_, _, _, _, _)
\* long division of bits lo..hi of n by a small positive integer d, from remainder r
DivRange(n, d, lo, hi, r) ==
    IF lo = hi
    THEN LET cur == 2 * r + n[lo]
         IN  [q |-> <<cur \div d>>, r |-> cur % d]
    ELSE LET mid == (lo + hi) \div 2
             L   == DivRange(n, d, lo, mid, r)
             lr  == L.r
             R   == DivRange(n, d, mid + 1, hi, lr)
         IN  [q |-> L.q \o R.q, r |-> R.r]

DivSmall(n, d) ==
    IF n = <<>> THEN [q |-> <<>>, r |-> 0] ELSE DivRange(n, d, 1, Len(n), 0)

\* ------------------------------------------------------------ floats
FZero == [neg |-> FALSE, m |-> <<>>, e |-> 0]

\* the canonical form of (-1)^neg * m * 2^e: m odd, or zero
Canon(neg, m, e) ==
    LET b == StripLead(m)
        t == TrailZeros(b)
    IN  IF b = <<>> THEN FZero
        ELSE [neg |-> neg, m |-> SubSeq(b, 1, Len(b) - t), e |-> e + t]

\* m * 2^e rounded to MantBits significant bits, ties to even
FRound(neg, m, e) ==
    LET b == StripLead(m)
        L == Len(b)
    IN  IF L <= MantBits THEN Canon(neg, b, e)
        ELSE LET q      == SubSeq(b, 1, MantBits)
                 r      == SubSeq(b, MantBits + 1, L)
                 sticky == \E i \in 2..Len(r) : r[i] = 1
                 up     == r[1] = 1 /\ (sticky \/ q[MantBits] = 1)
             IN  Canon(neg, IF up THEN BAdd(q, <<1>>) ELSE q, e + (L - MantBits))

\* float + float
FAdd(x, y) ==
    LET emin == IF x.e < y.e THEN x.e ELSE y.e
        a    == IF x.m = <<>> THEN <<>> ELSE x.m \o Zeros(x.e - emin)
        b    == IF y.m = <<>> THEN <<>> ELSE y.m \o Zeros(y.e - emin)
        c    == BCmp(a, b)
    IN  IF x.neg = y.neg THEN FRound(x.neg, BAdd(a, b), emin)
        ELSE IF c = 0 THEN FZero
        ELSE IF c > 0 THEN FRound(x.neg, BSub(a, b), emin)
        ELSE FRound(y.neg, BSub(b, a), emin)

FNeg(x) == IF x.m = <<>> THEN x ELSE [x EXCEPT !.neg = ~x.neg]
FSub(x, y) == FAdd(x, FNeg(y))
FAbs(x) == [x EXCEPT !.neg = FALSE]

\* -1, 0, 1 as x < y, x = y, x > y
FCmp(x, y) ==
    LET emin == IF x.e < y.e THEN x.e ELSE y.e
        a    == IF x.m = <<>> THEN <<>> ELSE x.m \o Zeros(x.e - emin)
        b    == IF y.m = <<>> THEN <<>> ELSE y.m \o Zeros(y.e - emin)
        c    == BCmp(a, b)
    IN  IF x.neg /\ ~y.neg THEN -1
        ELSE IF ~x.neg /\ y.neg THEN 1
        ELSE IF x.neg THEN 0 - c ELSE c

FGt(x, y) == FCmp(x, y) > 0
FGe(x, y) == FCmp(x, y) >= 0

RECURSIVE Pow10(_)
Pow10(d) == IF d = 0 THEN 1 ELSE 10 * Pow10(d - 1)

\* the float nearest to (-1)^neg * k / 10^d (a decimal literal, correctly rounded)
FromDecimal(neg, k, d) ==
    IF k = 0 THEN FZero
    ELSE IF d = 0 THEN FRound(neg, NatBits(k), 0)
    ELSE LET g  == MantBits + 2 + Len(NatBits(Pow10(d)))
             dv == DivSmall(NatBits(k) \o Zeros(g), Pow10(d))
             q  == StripLead(dv.q) \o <<IF dv.r = 0 THEN 0 ELSE 1>>
         IN  FRound(neg, q, 0 - (g + 1))

\* ------------------------------------------------------------ cells
\* a missing cell (pandas NaN); every other cell is a sequence of characters
NA == <<"NA">>

Lowers == <<"a","b","c","d","e","f","g","h","i","j","k","l","m",
            "n","o","p","q","r","s","t","u","v","w","x","y","z">>
Uppers == <<"A","B","C","D","E","F","G","H","I","J","K","L","M",
            "N","O","P","Q","R","S","T","U","V","W","X","Y","Z">>
Digits == <<"0","1","2","3","4","5","6","7","8","9">>

IsSpace(c) == c \in {" ", "\t", "\n"}

\* str.strip()
Strip(s) ==
    LET keep == {i \in 1..Len(s) : ~IsSpace(s[i])}
    IN  IF keep = {} THEN <<>> ELSE SubSeq(s, MinOf(keep), MaxOf(keep))

UpperChar(c) ==
    IF \E i \in 1..Len(Lowers) : Lowers[i] = c
    THEN Uppers[CHOOSE i \in 1..Len(Lowers) : Lowers[i] = c]
    ELSE c

\* str.upper()
Upper(s) == [i \in 1..Len(s) |-> UpperChar(s[i])]

sval(x) == IF x = NA THEN <<>> ELSE Strip(x)

sstatus(x) == Upper(sval(x))

\* ------------------------------------------------------------ numeric columns
IsDigit(c) == \E i \in 1..Len(Digits) : Digits[i] = c
DigitVal(c) == (CHOOSE i \in 1..Len(Digits) : Digits[i] = c) - 1

RECURSIVE DigitsVal(_)
DigitsVal(s) ==
    IF s = <<>> THEN 0
    ELSE 10 * DigitsVal(SubSeq(s, 1, Len(s) - 1)) + DigitVal(s[Len(s)])

\* pd.to_numeric(errors="coerce") of one string: plain decimal literals parse,
\* anything else is NaN (ok = FALSE)
ToNumeric(s) ==
    LET neg   == s # <<>> /\ s[1] = "-"
        body  == IF neg THEN Tail(s) ELSE s
        dots  == {i \in 1..Len(body) : body[i] = "."}
        dot   == IF dots = {} THEN Len(body) + 1 ELSE MinOf(dots)
        whole == SubSeq(body, 1, dot - 1)
        frac  == SubSeq(body, dot + 1, Len(body))
        digs  == whole \o frac
    IN  IF Cardinality(dots) <= 1 /\ digs # <<>>
           /\ \A i \in 1..Len(digs) : IsDigit(digs[i])
        THEN [ok |-> TRUE, v |-> FromDecimal(neg, DigitsVal(digs), Len(frac))]
        ELSE [ok |-> FALSE, v |-> FZero]

\* one cell of to_num_col: astype(str), drop commas, "nan"/"None" -> "0",
\* to_numeric coerce, fillna(0)
ToNumCell(x) ==
    LET str  == IF x = NA THEN <<"n","a","n">> ELSE x
        nocm == SelectSeq(str, LAMBDA c : c # ",")
        rep  == IF nocm = <<"n","a","n">> \/ nocm = <<"N","o","n","e">>
                THEN <<"0">> ELSE nocm
        num  == ToNumeric(rep)
    IN  IF num.ok THEN num.v ELSE FZero

to_num_col(df_local, col) ==
    IF col \in df_local.cols
    THEN [df_local EXCEPT !.rows =
            [i \in 1..Len(df_local.rows) |->
                [df_local.rows[i] EXCEPT ![col] = ToNumCell(@)]]]
    ELSE [cols |-> df_local.cols \cup {col},
          rows |-> [i \in 1..Len(df_local.rows) |->
                      df_local.rows[i] @@ (col :> FZero)]]

\* ------------------------------------------------------------ expected columns
expected_cols == <<"APPLNO", "regfeepaid", "forefit",
                   "Allot_1", "Allot_2", "Allot_3",
                   "JoinStatus_1", "JoinStatus_2", "JoinStatus_3",
                   "JoinStray", "Stray", "Remarks">>

input_alts == <<"ApplNo", "Applno", "Appl_No", "Appl No">>

RenameCol(d, old, new) ==
    LET cs == (d.cols \ {old}) \cup {new}
    IN  [cols |-> cs,
         rows |-> [i \in 1..Len(d.rows) |->
                     [k \in cs |-> IF k = new THEN d.rows[i][old] ELSE d.rows[i][k]]]]

AddCol(d, c, val) ==
    [cols |-> d.cols \cup {c},
     rows |-> [i \in 1..Len(d.rows) |-> d.rows[i] @@ (c :> val)]]

\* the loop body without its else branch: a missing column is left missing
NormaliseOne_skip(d, c) ==
    LET present == {j \in 1..Len(input_alts) : input_alts[j] \in d.cols}
    IN  IF c \in d.cols THEN d
        ELSE IF present # {} THEN RenameCol(d, input_alts[MinOf(present)], c)
        ELSE d

\* one pass of the loop body for column c: rename the first variant present, else create
NormaliseOne(d, c) ==
    LET present == {j \in 1..Len(input_alts) : input_alts[j] \in d.cols}
    IN  IF c \in d.cols THEN d
        ELSE IF present # {} THEN RenameCol(d, input_alts[MinOf(present)], c)
        ELSE AddCol(d, c, <<>>)

RECURSIVE NormaliseFrom(_, _)
NormaliseFrom(d, i) ==
    IF i > Len(expected_cols) THEN d
    ELSE NormaliseFrom(NormaliseOne(d, expected_cols[i]), i + 1)

\* ------------------------------------------------------------ compute_refund
RowGet(row, c, default) == IF c \in DOMAIN row THEN row[c] ELSE default

Decision(refund, forefit, cat) ==
    [RefundAmount |-> refund, NewForefit |-> forefit, RefundCategory |-> cat]

CatSpecial  == "Special: Joined P1/P2 + TC in P3 + Stray -> full refund"
CatRule2    == "Rule2: No allotment & joined via Spot -> full refund"
CatRule1    == "Rule1: Paid again, no P3 allot, joined via spot -> refund 2nd payment"
CatRule3    == "Rule3: Paid again, got P3 allot & joined -> refund 2nd payment"
CatNoAllot  == "No allotment - full refund"
CatJoinedTC == "Joined then TC - no refund"
CatJoined12 == "Joined in phase 1/2 - full refund"
CatJoined3  == "Joined in phase 3 - full refund"
CatStray    == "Joined via stray - full refund"
CatStrayNot == "Stray allotted but NOT joined - no refund"
CatForfeit3 == "Not joined in 1/2/3 - forfeit"
CatForfeit  == "Not joined in 1/2 - forfeit"
CatManual   == "Check manually"

Y  == <<"Y">>
N  == <<"N">>
TC == <<"T", "C">>

\* line 89, the special rule; and the same rule asking for both early rounds
special_rule_both(js1, js2, js3, join_stray) ==
    (js1 = Y /\ js2 = Y) /\ js3 = TC /\ join_stray = Y

special_rule(js1, js2, js3, join_stray) ==
    (js1 = Y \/ js2 = Y) /\ js3 = TC /\ join_stray = Y

\* line 106, rule 1; and the same rule with the stray flag alone counting as joined
rule1_universal(existing_forefit, reg_paid, allot3, join_stray, js3) ==
    /\ FGt(existing_forefit, FZero) /\ FGt(reg_paid, FZero)
    /\ allot3 = <<>> /\ join_stray = Y

rule1(existing_forefit, reg_paid, allot3, join_stray, js3) ==
    /\ FGt(existing_forefit, FZero) /\ FGt(reg_paid, FZero)
    /\ allot3 = <<>> /\ join_stray = Y /\ js3 = Y

\* line 114, rule 3
rule3(existing_forefit, reg_paid, allot3, js3) ==
    /\ FGt(existing_forefit, FZero) /\ FGt(reg_paid, FZero)
    /\ allot3 # <<>> /\ js3 = Y

\* line 132; and the same test looking at round 3 alone
any_tc_last(js1, js2, js3) == js3 = TC

any_tc(js1, js2, js3) == TC \in {js1, js2, js3}

\* a full refund: the forfeiture stays; and the same with the forfeiture reset
FullRefund_reset(reg_paid, existing_forefit, cat) ==
    Decision(reg_paid, FZero, cat)

FullRefund(reg_paid, existing_forefit, cat) ==
    Decision(reg_paid, existing_forefit, cat)

\* no refund: the fee is added to the forfeiture; and the same with the fee dropped
Forfeit_keep(reg_paid, existing_forefit, cat) ==
    Decision(FZero, existing_forefit, cat)

Forfeit(reg_paid, existing_forefit, cat) ==
    Decision(FZero, FAdd(existing_forefit, reg_paid), cat)

compute_refund(row) ==
    LET reg_paid         == RowGet(row, "regfeepaid", FZero)
        existing_forefit == RowGet(row, "forefit", FZero)
        js1        == sstatus(RowGet(row, "JoinStatus_1", <<>>))
        js2        == sstatus(RowGet(row, "JoinStatus_2", <<>>))
        js3        == sstatus(RowGet(row, "JoinStatus_3", <<>>))
        join_stray == sstatus(RowGet(row, "JoinStray", <<>>))
        allot1     == sval(RowGet(row, "Allot_1", <<>>))
        allot2     == sval(RowGet(row, "Allot_2", <<>>))
        allot3     == sval(RowGet(row, "Allot_3", <<>>))
        straycol   == sval(RowGet(row, "Stray", <<>>))
    IN  IF special_rule(js1, js2, js3, join_stray)
        THEN FullRefund(reg_paid, existing_forefit, CatSpecial)
        ELSE IF allot1 = <<>> /\ allot2 = <<>> /\ allot3 = <<>> /\ join_stray = Y /\ js3 = Y
        THEN FullRefund(reg_paid, existing_forefit, CatRule2)
        ELSE IF rule1(existing_forefit, reg_paid, allot3, join_stray, js3)
        THEN FullRefund(reg_paid, existing_forefit, CatRule1)
        ELSE IF rule3(existing_forefit, reg_paid, allot3, js3)
        THEN FullRefund(reg_paid, existing_forefit, CatRule3)
        ELSE IF allot1 = <<>> /\ allot2 = <<>> /\ allot3 = <<>> /\ straycol = <<>>
        THEN FullRefund(reg_paid, existing_forefit, CatNoAllot)
        ELSE IF js1 = Y \/ js2 = Y
        THEN (IF any_tc(js1, js2, js3)
              THEN Forfeit(reg_paid, existing_forefit, CatJoinedTC)
              ELSE FullRefund(reg_paid, existing_forefit, CatJoined12))
        ELSE IF js1 = <<>> /\ js2 = <<>> /\ js3 = Y
        THEN FullRefund(reg_paid, existing_forefit, CatJoined3)
        ELSE IF js1 = <<>> /\ js2 = <<>> /\ join_stray = Y /\ js3 = Y
        THEN FullRefund(reg_paid, existing_forefit, CatStray)
        ELSE IF js1 = <<>> /\ js2 = <<>> /\ join_stray = Y /\ js3 # Y
        THEN Forfeit(reg_paid, existing_forefit, CatStrayNot)
        ELSE IF js1 \in {N, TC} /\ js2 \in {N, TC}
        THEN (IF js3 = N
              THEN Forfeit(reg_paid, existing_forefit, CatForfeit3)
              ELSE Forfeit(reg_paid, existing_forefit, CatForfeit))
        ELSE Decision(FZero, existing_forefit, CatManual)

\* ------------------------------------------------------------ the script's state
VARIABLES
    pc,           \* where the script is
    uploaded,     \* the uploaded input file
    manual_file,  \* the optional manually-verified file
    df,           \* the input dataframe: [cols, rows]
    df_out,       \* df with the three decision columns
    df_manual,    \* the manual dataframe after its normalisation
    merged,       \* the comparison table
    errors        \* what st.error reported

vars == <<pc, uploaded, manual_file, df, df_out, df_manual, merged, errors>>

NoFrame == [cols |-> {}, rows |-> <<>>]
NoFile  == [kind |-> "none", cols |-> {}, rows |-> <<>>]
BadFile == [kind |-> "bad", cols |-> {}, rows |-> <<>>]

calc_cols == {"RefundAmount", "NewForefit", "RefundCategory"}

\* df.apply(compute_refund, axis=1) and pd.concat([df, calc], axis=1)
ApplyRow(row) ==
    LET d == compute_refund(row)
    IN  [k \in DOMAIN row \cup calc_cols |->
            IF k \in calc_cols THEN d[k] ELSE row[k]]

manual_alts == <<"ApplNo", "Applno", "Appl_No">>

\* the manual file's id column after the variant rename
ManualRenamed(m) ==
    LET present == {j \in 1..Len(manual_alts) : manual_alts[j] \in m.cols}
    IN  IF "APPLNO" \in m.cols \/ present = {} THEN m
        ELSE RenameCol(m, manual_alts[MinOf(present)], "APPLNO")

\* astype(str).str.strip() of the id, to_numeric(coerce).fillna(0) of Refund
ManualNormalised(m) ==
    [m EXCEPT !.rows =
        [i \in 1..Len(m.rows) |->
            [m.rows[i] EXCEPT
                !["APPLNO"] = Strip(IF @ = NA THEN <<"n","a","n">> ELSE @),
                !["Refund"] = LET n == ToNumeric(IF @ = NA THEN <<>> ELSE @)
                              IN  IF n.ok THEN n.v ELSE FZero]]]

\* the comparison tolerance 0.0001
Tolerance == FromDecimal(FALSE, 1, 4)

\* one row of the merge; manual is the matched Refund, or NaN filled with 0
MergedRow(l, manual) ==
    LET ManualRefund   == manual
        ComputedRefund == l["RefundAmount"]
        Diff           == FSub(ComputedRefund, ManualRefund)
    IN  l @@ ("ManualRefund" :> ManualRefund) @@ ("ComputedRefund" :> ComputedRefund)
          @@ ("Diff" :> Diff) @@ ("Mismatch" :> FGt(FAbs(Diff), Tolerance))

\* the rows a left row gives in a left merge on APPLNO
MergeOne(l, m) ==
    LET hits == SelectSeq(m.rows, LAMBDA r : r["APPLNO"] = l["APPLNO"])
    IN  IF hits = <<>> THEN <<MergedRow(l, FZero)>>
        ELSE [j \in 1..Len(hits) |-> MergedRow(l, hits[j]["Refund"])]

RECURSIVE MergeFrom(_, _, _)
MergeFrom(left, m, i) ==
    IF i > Len(left) THEN <<>>
    ELSE MergeOne(left[i], m) \o MergeFrom(left, m, i + 1)

\* ------------------------------------------------------------ the script's steps
\* lines 16-18: nothing uploaded
NoUpload ==
    /\ pc = "upload" /\ uploaded.kind = "none"
    /\ pc' = "stopped"
    /\ UNCHANGED <<uploaded, manual_file, df, df_out, df_manual, merged, errors>>

\* lines 21-29: the input file cannot be read
ReadError ==
    /\ pc = "upload" /\ uploaded.kind = "bad"
    /\ errors' = errors \cup {"Error reading input file"}
    /\ pc' = "stopped"
    /\ UNCHANGED <<uploaded, manual_file, df, df_out, df_manual, merged>>

\* lines 21-32
ReadInput ==
    /\ pc = "upload" /\ uploaded.kind = "ok"
    /\ df' = [cols |-> uploaded.cols, rows |-> uploaded.rows]
    /\ pc' = "read"
    /\ UNCHANGED <<uploaded, manual_file, df_out, df_manual, merged, errors>>

\* lines 34-47
NormaliseColumns ==
    /\ pc = "read"
    /\ df' = NormaliseFrom(df, 1)
    /\ pc' = "columns"
    /\ UNCHANGED <<uploaded, manual_file, df_out, df_manual, merged, errors>>

\* lines 57-58
ToNumCols ==
    /\ pc = "columns"
    /\ df' = to_num_col(to_num_col(df, "regfeepaid"), "forefit")
    /\ pc' = "numeric"
    /\ UNCHANGED <<uploaded, manual_file, df_out, df_manual, merged, errors>>

\* lines 188-200
Apply ==
    /\ pc = "numeric"
    /\ df_out' = [cols |-> df.cols \cup calc_cols,
                  rows |-> [i \in 1..Len(df.rows) |-> ApplyRow(df.rows[i])]]
    /\ pc' = "computed"
    /\ UNCHANGED <<uploaded, manual_file, df, df_manual, merged, errors>>

\* line 205: no manual file
SkipCompare ==
    /\ pc = "computed" /\ manual_file.kind = "none"
    /\ pc' = "compared"
    /\ UNCHANGED <<uploaded, manual_file, df, df_out, df_manual, merged, errors>>

\* lines 206-216: the manual file cannot be read
ManualReadError ==
    /\ pc = "computed" /\ manual_file.kind = "bad"
    /\ errors' = errors \cup {"Error reading manual file"}
    /\ pc' = "compared"
    /\ UNCHANGED <<uploaded, manual_file, df, df_out, df_manual, merged>>

\* lines 217-224: no Refund column
CompareNoRefund ==
    /\ pc = "computed" /\ manual_file.kind = "ok"
    /\ "Refund" \notin manual_file.cols
    /\ df_manual' = ManualRenamed([cols |-> manual_file.cols, rows |-> manual_file.rows])
    /\ errors' = errors \cup {"Manual file must include 'Refund' column to compare."}
    /\ pc' = "compared"
    /\ UNCHANGED <<uploaded, manual_file, df, df_out, merged>>

\* lines 217-226: a Refund column and no APPLNO column: df_manual["APPLNO"] raises KeyError
CompareKeyError ==
    /\ pc = "computed" /\ manual_file.kind = "ok"
    /\ "Refund" \in manual_file.cols
    /\ "APPLNO" \notin ManualRenamed([cols |-> manual_file.cols, rows |-> manual_file.rows]).cols
    /\ df_manual' = ManualRenamed([cols |-> manual_file.cols, rows |-> manual_file.rows])
    /\ pc' = "crashed"
    /\ UNCHANGED <<uploaded, manual_file, df, df_out, merged, errors>>

\* lines 217-244
Compare ==
    /\ pc = "computed" /\ manual_file.kind = "ok"
    /\ "Refund" \in manual_file.cols
    /\ LET m == ManualRenamed([cols |-> manual_file.cols, rows |-> manual_file.rows])
       IN  /\ "APPLNO" \in m.cols
           /\ df_manual' = ManualNormalised(m)
           /\ merged' = [cols |-> df_out.cols \cup
                                  {"ManualRefund", "ComputedRefund", "Diff", "Mismatch"},
                         rows |-> MergeFrom(df_out.rows, ManualNormalised(m), 1)]
    /\ pc' = "compared"
    /\ UNCHANGED <<uploaded, manual_file, df, df_out, errors>>

\* lines 249-284
Export ==
    /\ pc = "compared"
    /\ pc' = "exported"
    /\ UNCHANGED <<uploaded, manual_file, df, df_out, df_manual, merged, errors>>

\* ------------------------------------------------------------ inputs
\* rows of an uploaded file, rows of a manual file
MaxRows == 2
MaxManualRows == 2

SeqsUpTo(S, n) == UNION {[1..k -> S] : k \in 1..n}

AllRowNames == {expected_cols[i] : i \in 1..Len(expected_cols)}
                 \cup {input_alts[i] : i \in 1..Len(input_alts)}

StructuralCols == {"Allot_1", "Allot_2", "Allot_3",
                   "JoinStatus_1", "JoinStatus_2", "JoinStatus_3"}

\* a record of the batch: an id and one of two shapes (nothing allotted; allotted in
\* round 1 and not joined in rounds 1 and 2)
BatchRow(id, allotted) ==
    [k \in AllRowNames |->
        IF k \in {"APPLNO", "ApplNo", "Applno", "Appl_No", "Appl No"} THEN id
        ELSE IF k = "regfeepaid" THEN <<"5","0","0","0">>
        ELSE IF k = "forefit" THEN <<"0">>
        ELSE IF k = "Allot_1" /\ allotted THEN <<"A">>
        ELSE IF k \in {"JoinStatus_1", "JoinStatus_2"} /\ allotted THEN <<"N">>
        ELSE IF k = "Remarks" THEN <<>>
        ELSE NA]

BatchRows == {BatchRow(id, a) : id \in {<<"1">>, <<"2">>}, a \in BOOLEAN}

Restrict(row, cols) == [k \in cols |-> row[k]]

ExpectedSet == {expected_cols[i] : i \in 1..Len(expected_cols)}

\* the column sets of the uploaded files: complete; without the allotment and join
\* status columns; the same beside a variant id column; the id under a variant name;
\* no fee column beside a variant id
InputColumnSets ==
    { ExpectedSet,
      ExpectedSet \ StructuralCols,
      (ExpectedSet \ StructuralCols) \cup {"Applno"},
      (ExpectedSet \ {"APPLNO"}) \cup {"ApplNo"},
      (ExpectedSet \ {"regfeepaid"}) \cup {"Appl No"} }

UploadedFiles ==
    {NoFile, BadFile} \cup
    { [kind |-> "ok", cols |-> cs,
       rows |-> [i \in 1..Len(rs) |-> Restrict(rs[i], cs)]] :
        cs \in InputColumnSets, rs \in SeqsUpTo(BatchRows, MaxRows) }

ManualRow(id, refund) ==
    [k \in {"APPLNO", "ApplNo", "Appl No", "Refund"} |->
        IF k = "Refund" THEN refund ELSE id]

ManualRows ==
    { ManualRow(<<"1">>, <<"4","9","9","9",".","9","9","9","9">>),
      ManualRow(<<"1">>, <<"4","9","9","0">>),
      ManualRow(<<" ","2">>, <<"5","0","0","0">>),
      ManualRow(<<" ","2">>, <<"x">>) }

ManualColumnSets ==
    { {"APPLNO", "Refund"}, {"ApplNo", "Refund"}, {"Refund"},
      {"APPLNO"}, {"Appl No", "Refund"} }

ManualFiles ==
    {NoFile, BadFile} \cup
    { [kind |-> "ok", cols |-> cs,
       rows |-> [i \in 1..Len(rs) |-> Restrict(rs[i], cs)]] :
        cs \in ManualColumnSets, rs \in SeqsUpTo(ManualRows, MaxManualRows) }

Init ==
    /\ pc = "upload"
    /\ uploaded \in UploadedFiles
    /\ manual_file \in ManualFiles
    /\ df = NoFrame
    /\ df_out = NoFrame
    /\ df_manual = NoFrame
    /\ merged = NoFrame
    /\ errors = {}

Next ==
    \/ NoUpload
    \/ ReadError
    \/ ReadInput
    \/ NormaliseColumns
    \/ ToNumCols
    \/ Apply
    \/ SkipCompare
    \/ ManualReadError
    \/ CompareNoRefund
    \/ CompareKeyError
    \/ Compare
    \/ Export

Spec == Init /\ [][Next]_vars

\* ------------------------------------------------------------ one record
\* the cells of a single record, one spelling of each status per column
JoinStatus1Cells == {NA, <<"Y">>, <<"n">>, <<"T","C">>}
JoinStatus2Cells == {<<>>, <<"y"," ">>, <<"N">>, <<"t","c">>}
JoinStatus3Cells == {<<" ">>, <<"Y">>, <<"N">>, <<" ","T","C">>}
JoinStrayCells   == {NA, <<"Y">>, <<"N">>}
Allot1Cells      == {NA, <<"A">>}
Allot2Cells      == {<<>>, <<"B">>}
Allot3Cells      == {<<" ">>, <<"C">>}
StrayCells       == {NA, <<"S">>}
FeeCells         == { <<"2","0","0","0",".","2">>, <<"-","5","0","0">>,
                      <<"a","b","c">>, <<"1",",","0","0","0">> }
ForefitCells     == { NA, <<"1","0","0","0",".","1">>, <<"2",",","0","0","0">> }

RecordFiles ==
    { [kind |-> "ok", cols |-> ExpectedSet,
       rows |-> << [k \in ExpectedSet |->
                     CASE k = "APPLNO"       -> <<"1">>
                       [] k = "regfeepaid"   -> fee
                       [] k = "forefit"      -> ff
                       [] k = "Allot_1"      -> a1
                       [] k = "Allot_2"      -> a2
                       [] k = "Allot_3"      -> a3
                       [] k = "JoinStatus_1" -> j1
                       [] k = "JoinStatus_2" -> j2
                       [] k = "JoinStatus_3" -> j3
                       [] k = "JoinStray"    -> js
                       [] k = "Stray"        -> st
                       [] OTHER              -> <<>>] >>] :
        fee \in FeeCells, ff \in ForefitCells,
        a1 \in Allot1Cells, a2 \in Allot2Cells, a3 \in Allot3Cells,
        j1 \in JoinStatus1Cells, j2 \in JoinStatus2Cells, j3 \in JoinStatus3Cells,
        js \in JoinStrayCells, st \in StrayCells }

RecordInit ==
    /\ pc = "upload"
    /\ uploaded \in RecordFiles
    /\ manual_file = NoFile
    /\ df = NoFrame
    /\ df_out = NoFrame
    /\ df_manual = NoFrame
    /\ merged = NoFrame
    /\ errors = {}

RecordNext ==
    \/ ReadInput
    \/ NormaliseColumns
    \/ ToNumCols
    \/ Apply

\* the run of the script over a one-record file, up to the computed decision
RecordSpec == RecordInit /\ [][RecordNext]_vars

\* ------------------------------------------------------------ properties of one record
\* the record after the numeric columns are normalised, and its decision
Computed   == pc = "computed"
TheRow     == df.rows[1]
TheOut     == df_out.rows[1]
fee_paid   == TheRow["regfeepaid"]
prior      == TheRow["forefit"]
Status1    == sstatus(TheRow["JoinStatus_1"])
Status2    == sstatus(TheRow["JoinStatus_2"])
Status3    == sstatus(TheRow["JoinStatus_3"])
StrayJoin  == sstatus(TheRow["JoinStray"])
NoAllot123 == sval(TheRow["Allot_1"]) = <<>> /\ sval(TheRow["Allot_2"]) = <<>>
                 /\ sval(TheRow["Allot_3"]) = <<>>
SomeMarker == ~NoAllot123 \/ sval(TheRow["Stray"]) # <<>>
SecondPaymentRound3 ==
    /\ FGt(prior, FZero) /\ FGt(fee_paid, FZero)
    /\ sval(TheRow["Allot_3"]) # <<>> /\ Status3 = Y

\* C1: every decision other than the manual check has
\* RefundAmount + (NewForefit - prior_forfeiture) = fee_paid, computed as the program
\* computes with its amounts
C1_Conservation ==
    (Computed /\ TheOut["RefundCategory"] # CatManual) =>
        FAdd(TheOut["RefundAmount"], FSub(TheOut["NewForefit"], prior)) = fee_paid

\* C2 as written: a record whose stray-join flag is Y is refunded fee_paid
C2_StrayAlwaysRefunded ==
    (Computed /\ StrayJoin = Y) => TheOut["RefundAmount"] = fee_paid

\* when a record with the stray-join flag Y is refunded in full
StrayRefundCase ==
    \/ (Status1 = Y \/ Status2 = Y) /\ Status3 = TC
    \/ Status3 = Y /\ NoAllot123
    \/ Status3 = Y /\ FGt(prior, FZero) /\ FGt(fee_paid, FZero)
    \/ NoAllot123 /\ sval(TheRow["Stray"]) = <<>>
    \/ (Status1 = Y \/ Status2 = Y) /\ TC \notin {Status1, Status2, Status3}
    \/ Status1 = <<>> /\ Status2 = <<>> /\ Status3 = Y

\* C2 amended: with the stray-join flag Y the refund is fee_paid exactly in the cases
\* of StrayRefundCase, and 0 in every other case
C2_StrayRefundedWhenJoined ==
    (Computed /\ StrayJoin = Y) =>
        /\ StrayRefundCase => TheOut["RefundAmount"] = fee_paid
        /\ ~StrayRefundCase => TheOut["RefundAmount"] = FZero

C2_Witness ==
    /\ Computed /\ StrayJoin = Y /\ FGt(fee_paid, FZero)
    /\ TheOut["RefundCategory"] = CatRule1
    /\ TheOut["RefundAmount"] = fee_paid

\* C3: RefundAmount and NewForefit are never negative
C3_NonNegative ==
    Computed => /\ FGe(TheOut["RefundAmount"], FZero)
                /\ FGe(TheOut["NewForefit"], FZero)

\* C4: round 1 or 2 joined, round 3 TC and the stray-join flag Y: full refund, the
\* forfeiture unchanged, decided by the special rule
C4_SpecialRuleFirst ==
    (Computed /\ (Status1 = Y \/ Status2 = Y) /\ Status3 = TC /\ StrayJoin = Y) =>
        /\ TheOut["RefundAmount"] = fee_paid
        /\ TheOut["NewForefit"] = prior
        /\ TheOut["RefundCategory"] = CatSpecial

C4_Witness ==
    /\ Computed /\ Status1 = Y /\ Status2 = TC /\ Status3 = TC /\ StrayJoin = Y
    /\ ~NoAllot123 /\ FGt(fee_paid, FZero)
    /\ TheOut["RefundCategory"] = CatSpecial

NotJoinedEarly == Status1 \in {N, TC} /\ Status2 \in {N, TC}

\* C5 as written: rounds 1 and 2 both N or TC, no stray join, some marker: no refund,
\* the fee forfeited, whatever round 3 holds
C5_ForfeitWhateverRound3 ==
    (Computed /\ NotJoinedEarly /\ StrayJoin # Y /\ SomeMarker) =>
        /\ TheOut["RefundAmount"] = FZero
        /\ TheOut["NewForefit"] = FAdd(prior, fee_paid)

\* C5 amended: the same, except for a second payment with a round-3 allotment that
\* was joined (rule 3), which is refunded
C5_ForfeitUnlessRule3 ==
    (Computed /\ NotJoinedEarly /\ StrayJoin # Y /\ SomeMarker) =>
        IF SecondPaymentRound3
        THEN /\ TheOut["RefundAmount"] = fee_paid
             /\ TheOut["NewForefit"] = prior
        ELSE /\ TheOut["RefundAmount"] = FZero
             /\ TheOut["NewForefit"] = FAdd(prior, fee_paid)

C5_Witness ==
    /\ Computed /\ Status1 = N /\ Status2 = TC /\ Status3 = Y /\ StrayJoin # Y
    /\ ~SecondPaymentRound3 /\ FGt(fee_paid, FZero) /\ FGt(prior, FZero)
    /\ TheOut["RefundCategory"] = CatForfeit
    /\ TheOut["NewForefit"] = FAdd(prior, fee_paid)

JoinedEarly == Status1 = Y \/ Status2 = Y

\* C6 as written: round 1 or 2 joined, no stray join, some marker: forfeited if any
\* round is TC, refunded otherwise
C6_JoinedThenTC ==
    (Computed /\ JoinedEarly /\ StrayJoin # Y /\ SomeMarker) =>
        IF TC \in {Status1, Status2, Status3}
        THEN /\ TheOut["RefundAmount"] = FZero
             /\ TheOut["NewForefit"] = FAdd(prior, fee_paid)
        ELSE /\ TheOut["RefundAmount"] = fee_paid
             /\ TheOut["NewForefit"] = prior

\* C6 amended: the same, except that a second payment with a round-3 allotment that
\* was joined (rule 3) is refunded even when round 1 or 2 is TC
C6_JoinedThenTCUnlessRule3 ==
    (Computed /\ JoinedEarly /\ StrayJoin # Y /\ SomeMarker) =>
        IF TC \in {Status1, Status2, Status3} /\ ~SecondPaymentRound3
        THEN /\ TheOut["RefundAmount"] = FZero
             /\ TheOut["NewForefit"] = FAdd(prior, fee_paid)
        ELSE /\ TheOut["RefundAmount"] = fee_paid
             /\ TheOut["NewForefit"] = prior

C6_Witness ==
    /\ Computed /\ Status1 = Y /\ Status2 = TC /\ Status3 = N /\ StrayJoin # Y
    /\ FGt(fee_paid, FZero) /\ FGt(prior, FZero)
    /\ TheOut["RefundCategory"] = CatJoinedTC
    /\ TheOut["RefundAmount"] = FZero

\* C10: the new forfeiture is the prior one or the prior one plus the fee, and with a
\* fee that is not negative it is never below the prior one
C10_ForfeitureNeverLowered ==
    Computed =>
        /\ TheOut["NewForefit"] \in {prior, FAdd(prior, fee_paid)}
        /\ FGe(fee_paid, FZero) => FGe(TheOut["NewForefit"], prior)

C10_Witness ==
    /\ Computed /\ StrayJoin = Y /\ FGt(fee_paid, FZero) /\ FGt(prior, FZero)
    /\ TheOut["RefundCategory"] = CatStrayNot
    /\ FGt(TheOut["NewForefit"], prior)

\* ------------------------------------------------------------ properties of a run
AltSet == {input_alts[i] : i \in 1..Len(input_alts)}
             \cup {manual_alts[i] : i \in 1..Len(manual_alts)}

ManualLacksId     == manual_file.cols \cap ({"APPLNO"} \cup AltSet) = {}
ManualLacksAmount == "Refund" \notin manual_file.cols

\* C7: a manual file without its id column or without its Refund column: the
\* comparison is skipped with an error reported, nothing is raised, the output is
\* computed and the export is reached
C7_ComparisonSkippedNotCrashed ==
    (manual_file.kind = "ok" /\ (ManualLacksId \/ ManualLacksAmount)) =>
        /\ pc # "crashed"
        /\ pc \in {"compared", "exported"} =>
              /\ errors # {}
              /\ merged = NoFrame
              /\ Len(df_out.rows) = Len(uploaded.rows)

StructuralAbsent == uploaded.kind = "ok" /\ uploaded.cols \cap StructuralCols = {}

AfterApply == pc \in {"computed", "compared", "exported", "crashed"}

Categories ==
    { CatSpecial, CatRule2, CatRule1, CatRule3, CatNoAllot, CatJoinedTC, CatJoined12,
      CatJoined3, CatStray, CatStrayNot, CatForfeit3, CatForfeit, CatManual }

DecimalAmounts == {0, 10000, 20000, 49900000, 49999999, 50000000}
Units(x) == CHOOSE k \in DecimalAmounts : FromDecimal(FALSE, k, 4) = x

Abs(n) == IF n < 0 THEN 0 - n ELSE n

HasManualRow(id) == \E k \in 1..Len(df_manual.rows) : df_manual.rows[k]["APPLNO"] = id

\* C9: every computed row is in the comparison, an id without a manual row compares
\* against 0, and Mismatch is false exactly when the two amounts differ by at most
\* 0.0001 (5000 against 4999.9999 is no mismatch)
C9_Comparison ==
    (pc \in {"compared", "exported"} /\ merged # NoFrame) =>
        /\ \A i \in 1..Len(df_out.rows) : \E j \in 1..Len(merged.rows) :
              Restrict(merged.rows[j], df_out.cols) = df_out.rows[i]
        /\ \A j \in 1..Len(merged.rows) :
              /\ ~HasManualRow(merged.rows[j]["APPLNO"]) =>
                    merged.rows[j]["ManualRefund"] = FZero
              /\ merged.rows[j]["Mismatch"] = FALSE <=>
                    Abs(Units(merged.rows[j]["ComputedRefund"])
                          - Units(merged.rows[j]["ManualRefund"])) <= 1

====
